---- MODULE Spec2Model ----
(***************************************************************************)
(* A model of the WS1in5 driver (src/src/lib.rs): a 128x128, 4-bit gray    *)
(* OLED panel behind an I2C bus and one reset line.                        *)
(*                                                                         *)
(* One action per public operation.  An action runs the whole handler and  *)
(* records what the caller and the bus saw of it:                          *)
(*   op, args   the operation and its arguments                            *)
(*   res        "Ok", "I2C", "GPIO", "OutOfBounds", or "Panic"             *)
(*   ret        the value returned inside Ok (a cursor, a buffer)          *)
(*   log        every bus write the call attempted, in order:              *)
(*              <<register, byte, ok>>                                     *)
(*   pins       every level the call drove the reset line to, each with    *)
(*              the number of bus writes attempted before it               *)
(*   wins       one record per set_windows invocation made by the call     *)
(*   shows      one record per show_image invocation made by the call:     *)
(*              its x, y, width, height and the length of its buffer       *)
(*   steps      one record per character a paragraph call finished         *)
(*   pre        the cleared flag before the call                           *)
(* The caller reads has_cleared() after every call that leaves it a driver *)
(* (pc = "observe"); the read changes nothing, so no sequence of           *)
(* operations is lost by it.                                               *)
(* The bus is the environment: in each call at most one write fails, the   *)
(* fail-th one (fail = 0: none), since every handler returns at the first  *)
(* failed write.                                                           *)
(*                                                                         *)
(* Rust's integer overflow is build dependent: with overflow checks (the   *)
(* debug profile) an overflowing + - * panics, without them (the release   *)
(* profile) it wraps.  `checks` is the build's setting.  `as u8` always    *)
(* truncates.  A usize that wrapped is kept as an integer congruent to it  *)
(* modulo 2^64; every use the driver makes of such a value is `as u8`, and *)
(* 256 divides 2^64.                                                       *)
(***************************************************************************)
EXTENDS Integers, Sequences, FiniteSets, TLC

VARIABLES dev, checks, cleared, pc, op, args, res, ret, log, pins, wins, shows,
          steps, pre

vars == <<dev, checks, cleared, pc, op, args, res, ret, log, pins, wins, shows,
          steps, pre>>

(***************************************************************************)
(* Program constants                                                       *)
(***************************************************************************)
OLED_WIDTH == 128
OLED_HEIGHT == 128

\* sub-address of a command write (fn command) and of a data write (show_image)
CMD_REG == 0
DATA_REG == 64

\* the bytes init sends, in order
InitCmds ==
    << 174,
       21, 0, 127,
       117, 0, 127,
       129, 128,
       160, 81,
       161, 0,
       162, 0,
       164, 168, 127,
       177, 241,
       179, 0,
       171, 1,
       182, 15,
       190, 15,
       188, 8,
       213, 98,
       253, 18,
       175 >>

(***************************************************************************)
(* Bounds of the model                                                     *)
(***************************************************************************)
\* a call's failing bus write is one of its first MaxFail writes (or none)
MaxFail == 12
\* the longest buffer handed to show_image
MaxBufLen == 4
\* the longest text handed to a text operation
MaxTextLen == 2
\* the most pixels of an image handed to get_buffer directly
MaxPix == 4

RECURSIVE SeqsUpTo(_, _)
\* the sequences over S of length at most n
SeqsUpTo(S, n) ==
    IF n = 0 THEN {<<>>}
    ELSE LET shorter == SeqsUpTo(S, n - 1)
         IN  shorter \cup {Append(q, e) : q \in {r \in shorter : Len(r) = n - 1}, e \in S}

(***************************************************************************)
(* 8-bit arithmetic                                                        *)
(***************************************************************************)
\* `v as u8`
AsU8(v) == v % 256

Bit(v, i) == (v \div (2 ^ i)) % 2

\* a & b on 4-bit values, bit by bit
And4 ==
    [a \in 0..15, b \in 0..15 |->
        Bit(a, 0) * Bit(b, 0) + 2 * Bit(a, 1) * Bit(b, 1)
        + 4 * Bit(a, 2) * Bit(b, 2) + 8 * Bit(a, 3) * Bit(b, 3)]

\* a & b on u8
And8(a, b) == 16 * And4[a \div 16, b \div 16] + And4[a % 16, b % 16]

\* a | b on u8
Or8(a, b) == a + b - And8(a, b)

\* !a on u8
Not8(a) == 255 - a

\* a.rotate_right(n) on u8, n < 8
RotR8(a, n) == ((a \div (2 ^ n)) + a * (2 ^ (8 - n))) % 256

\* a << n and a >> n on u8, n < 8 (bits shifted out are lost, no panic)
Shl8(a, n) == (a * (2 ^ n)) % 256
Shr8(a, n) == a \div (2 ^ n)

(***************************************************************************)
(* The running call: the driver's flag, what the call did so far, and how  *)
(* it stands (st = "run" until an error return or a panic ends it).        *)
(***************************************************************************)
Ctx(c, f, chk) ==
    [cleared |-> c, log |-> <<>>, pins |-> <<>>, wins |-> <<>>, shows |-> <<>>,
     steps |-> <<>>,
     ret |-> <<>>, st |-> "run", fail |-> f, checks |-> chk]

\* i2c_bus.smbus_write_byte(reg, b) followed by `?`
BusWrite(s, reg, b) ==
    IF s.st # "run" THEN s
    ELSE LET ok == Len(s.log) + 1 # s.fail
         IN  [s EXCEPT !.log = Append(@, <<reg, b, ok>>),
                       !.st = IF ok THEN "run" ELSE "I2C"]

\* self.command(cmd)?
Command(s, cmd) == BusWrite(s, CMD_REG, cmd)

\* reset_pin.set_high() / set_low()
SetPin(s, level) ==
    IF s.st # "run" THEN s
    ELSE [s EXCEPT !.pins = Append(@, <<level, Len(s.log)>>)]

\* an arithmetic operation that overflows when `over`: a panic in a build
\* with overflow checks, a wrapped value otherwise
Overflow(s, over) ==
    IF s.st = "run" /\ over /\ s.checks THEN [s EXCEPT !.st = "Panic"] ELSE s

\* pub fn reset
reset(s) ==
    LET s1 == SetPin(s, 1)
        s2 == SetPin(s1, 0)
        s3 == SetPin(s2, 1)
    IN  IF s3.st # "run" THEN s3 ELSE [s3 EXCEPT !.cleared = TRUE]

RECURSIVE CommandSeqIgnoringErrors(_, _)
\* CommandSeq as it would be with the results dropped (`let _ = ...;`)
CommandSeqIgnoringErrors(s, cmds) ==
    IF cmds = <<>> THEN s
    ELSE CommandSeqIgnoringErrors([Command(s, Head(cmds)) EXCEPT !.st = "run"],
                                  Tail(cmds))

RECURSIVE CommandSeq(_, _)
\* self.command(c1)?; self.command(c2)?; ...
CommandSeq(s, cmds) ==
    IF cmds = <<>> THEN s
    ELSE CommandSeq(Command(s, Head(cmds)), Tail(cmds))

\* init as it would be pulsing the reset line after the commands
initResetLast(s) == reset(CommandSeq(s, InitCmds))

\* fn init
init(s) == CommandSeq(reset(s), InitCmds)

\* the body of fn set_windows past its bounds test
SetWindowsCmds(s, xstart, ystart, xend, yend) ==
    LET s1 == Command(s, 21)
        s2 == Command(s1, xstart \div 2)
        s3 == Overflow(s2, xend \div 2 < 1)
        s4 == Command(s3, AsU8(xend \div 2 - 1))
        s5 == Command(s4, 117)
        s6 == Command(s5, ystart)
        s7 == Overflow(s6, yend < 1)
    IN  Command(s7, AsU8(yend - 1))

\* set_windows as it would be testing only the start of the window
set_windowsStartOnly(s, xstart, ystart, xend, yend) ==
    IF s.st # "run" THEN s
    ELSE LET t == IF xstart > AsU8(OLED_WIDTH) \/ ystart > AsU8(OLED_HEIGHT)
                  THEN s
                  ELSE SetWindowsCmds(s, xstart, ystart, xend, yend)
         IN  [t EXCEPT !.wins = Append(@,
                 [a |-> <<xstart, ystart, xend, yend>>,
                  from |-> Len(s.log), to |-> Len(t.log),
                  st |-> IF t.st = "run" THEN "Ok" ELSE t.st])]

\* fn set_windows, with the invocation recorded in wins
set_windows(s, xstart, ystart, xend, yend) ==
    IF s.st # "run" THEN s
    ELSE LET t == IF \/ xstart > AsU8(OLED_WIDTH) \/ ystart > AsU8(OLED_HEIGHT)
                     \/ xend > AsU8(OLED_WIDTH) \/ yend > AsU8(OLED_HEIGHT)
                  THEN s
                  ELSE SetWindowsCmds(s, xstart, ystart, xend, yend)
         IN  [t EXCEPT !.wins = Append(@,
                 [a |-> <<xstart, ystart, xend, yend>>,
                  from |-> Len(s.log), to |-> Len(t.log),
                  st |-> IF t.st = "run" THEN "Ok" ELSE t.st])]

\* DataStream as it would be indexing buffer[i + height * j]
DataStreamTransposed(s, buffer, width, height) ==
    IF s.st # "run" THEN s
    ELSE LET cols == width \div 2
             n == cols * height
             sent == [k \in 1..n |->
                        buffer[((k - 1) \div cols) + height * ((k - 1) % cols) + 1]]
             cut == s.fail - Len(s.log)
         IN  IF cut \in 1..n
             THEN [s EXCEPT !.log = @ \o [k \in 1..cut |->
                                            <<DATA_REG, sent[k], k # cut>>],
                            !.st = "I2C"]
             ELSE [s EXCEPT !.log = @ \o [k \in 1..n |-> <<DATA_REG, sent[k], TRUE>>]]

\* the nested for loops of show_image: buffer[j + width / 2 * i] for each
\* i in 0..height, j in 0..(width/2), each followed by `?`
DataStream(s, buffer, width, height) ==
    IF s.st # "run" THEN s
    ELSE LET cols == width \div 2
             n == cols * height
             sent == [k \in 1..n |->
                        buffer[((k - 1) % cols) + cols * ((k - 1) \div cols) + 1]]
             base == Len(s.log)
             cut == s.fail - base
         IN  IF cut \in 1..n
             THEN [s EXCEPT !.log = @ \o [k \in 1..cut |->
                                            <<DATA_REG, sent[k], k # cut>>],
                            !.st = "I2C"]
             ELSE [s EXCEPT !.log = @ \o [k \in 1..n |-> <<DATA_REG, sent[k], TRUE>>]]

\* show_image is entered with these arguments
Entered(s, buffer, x, y, width, height) ==
    IF s.st # "run" THEN s
    ELSE [s EXCEPT !.shows = Append(@, [x |-> x, y |-> y, width |-> width,
                                        height |-> height, len |-> Len(buffer)])]

\* show_image as it would be with `self.cleared = false` as its first line
show_imageEarlyFlag(s, buffer, x, y, width, height) ==
    LET e == Entered(s, buffer, x, y, width, height)
        s0 == IF e.st # "run" THEN e ELSE [e EXCEPT !.cleared = FALSE]
        s1 == Overflow(s0, AsU8(x) + AsU8(width) > 255)
        s2 == Overflow(s1, AsU8(y) + AsU8(height) > 255)
        s3 == set_windows(s2, AsU8(x), AsU8(y),
                          AsU8(AsU8(x) + AsU8(width)), AsU8(AsU8(y) + AsU8(height)))
    IN  IF s3.st # "run" THEN s3
        ELSE IF Len(buffer) < (width \div 2) * height
             THEN [s3 EXCEPT !.st = "OutOfBounds"]
             ELSE DataStream(s3, buffer, width, height)

\* show_image as it would be with `self.cleared = false` as its last line,
\* after the loops
show_imageLateFlag(s, buffer, x, y, width, height) ==
    LET s1 == Overflow(Entered(s, buffer, x, y, width, height),
                       AsU8(x) + AsU8(width) > 255)
        s2 == Overflow(s1, AsU8(y) + AsU8(height) > 255)
        s3 == set_windows(s2, AsU8(x), AsU8(y),
                          AsU8(AsU8(x) + AsU8(width)), AsU8(AsU8(y) + AsU8(height)))
    IN  IF s3.st # "run" THEN s3
        ELSE IF Len(buffer) < (width \div 2) * height
             THEN [s3 EXCEPT !.st = "OutOfBounds"]
             ELSE LET s4 == DataStream(s3, buffer, width, height)
                  IN  IF s4.st # "run" THEN s4 ELSE [s4 EXCEPT !.cleared = FALSE]

\* show_image as it would be without `self.cleared = false`
show_imageKeepsFlag(s, buffer, x, y, width, height) ==
    LET s1 == Overflow(Entered(s, buffer, x, y, width, height),
                       AsU8(x) + AsU8(width) > 255)
        s2 == Overflow(s1, AsU8(y) + AsU8(height) > 255)
        s3 == set_windows(s2, AsU8(x), AsU8(y),
                          AsU8(AsU8(x) + AsU8(width)), AsU8(AsU8(y) + AsU8(height)))
    IN  IF s3.st # "run" THEN s3
        ELSE IF Len(buffer) < (width \div 2) * height
             THEN [s3 EXCEPT !.st = "OutOfBounds"]
             ELSE DataStream(s3, buffer, width, height)

\* show_image as it would be returning Ok at once when set_windows ignored
\* the window
show_imageSkipsOffPanel(s, buffer, x, y, width, height) ==
    LET s1 == Overflow(Entered(s, buffer, x, y, width, height),
                       AsU8(x) + AsU8(width) > 255)
        s2 == Overflow(s1, AsU8(y) + AsU8(height) > 255)
        s3 == set_windows(s2, AsU8(x), AsU8(y),
                          AsU8(AsU8(x) + AsU8(width)), AsU8(AsU8(y) + AsU8(height)))
    IN  IF s3.st # "run" THEN s3
        ELSE IF \E i \in 1..4 : s3.wins[Len(s3.wins)].a[i] > 128 THEN s3
        ELSE IF Len(buffer) < (width \div 2) * height
             THEN [s3 EXCEPT !.st = "OutOfBounds"]
             ELSE DataStream([s3 EXCEPT !.cleared = FALSE], buffer, width, height)

\* show_image as it would be with the length check as its first statement
show_imageChecksFirst(s, buffer, x, y, width, height) ==
    LET e == Entered(s, buffer, x, y, width, height)
        s0 == IF e.st = "run" /\ Len(buffer) < (width \div 2) * height
              THEN [e EXCEPT !.st = "OutOfBounds"] ELSE e
        s1 == Overflow(s0, AsU8(x) + AsU8(width) > 255)
        s2 == Overflow(s1, AsU8(y) + AsU8(height) > 255)
        s3 == set_windows(s2, AsU8(x), AsU8(y),
                          AsU8(AsU8(x) + AsU8(width)), AsU8(AsU8(y) + AsU8(height)))
    IN  IF s3.st # "run" THEN s3
        ELSE DataStream([s3 EXCEPT !.cleared = FALSE], buffer, width, height)

\* pub fn show_image
show_image(s, buffer, x, y, width, height) ==
    LET s1 == Overflow(Entered(s, buffer, x, y, width, height),
                       AsU8(x) + AsU8(width) > 255)
        s2 == Overflow(s1, AsU8(y) + AsU8(height) > 255)
        s3 == set_windows(s2, AsU8(x), AsU8(y),
                          AsU8(AsU8(x) + AsU8(width)), AsU8(AsU8(y) + AsU8(height)))
    IN  IF s3.st # "run" THEN s3
        ELSE IF Len(buffer) < (width \div 2) * height
             THEN [s3 EXCEPT !.st = "OutOfBounds"]
             ELSE DataStream([s3 EXCEPT !.cleared = FALSE], buffer, width, height)

\* pub fn clear
clear(s, x, y, width, height) ==
    LET s1 == IF s.st # "run" THEN s ELSE [s EXCEPT !.cleared = TRUE]
        buffer == [k \in 1..((width \div 2) * height) |-> 0]
    IN  show_image(s1, buffer, x, y, width, height)

\* pub fn clear_all
clear_all(s) == clear(s, 0, 0, OLED_WIDTH, OLED_HEIGHT)

(***************************************************************************)
(* Packing.  An image is [w, h, px]: its own dimensions and its w*h gray   *)
(* values in the order enumerate_pixels yields them (row by row).          *)
(***************************************************************************)
\* PackPixel as it would be without the rotate_right: the mask keeps the
\* low nibble whatever the column
PackPixelNoRotate(img, width, buf, k) ==
    LET x == (k - 1) % img.w
        y == (k - 1) \div img.w
        addr == x \div 2 + y * (width \div 2)
        color == img.px[k] % 16
    IN  IF addr >= Len(buf) THEN [st |-> "Panic", buf |-> <<>>]
        ELSE LET data == And8(buf[addr + 1], Not8(240))
                 new == And8(buf[addr + 1],
                             Or8(data, Shr8(Shl8(color, 4), (x % 2) * 4)))
             IN  [st |-> "Ok", buf |-> [buf EXCEPT ![addr + 1] = new]]

\* one pass of the body of get_buffer's for loop, for the k-th pixel the
\* iterator yields; indexing buf outside its length panics in every build
PackPixel(img, width, buf, k) ==
    LET x == (k - 1) % img.w
        y == (k - 1) \div img.w
        pixel == img.px[k]
        addr == x \div 2 + y * (width \div 2)
        color == pixel % 16
    IN  IF addr >= Len(buf) THEN [st |-> "Panic", buf |-> <<>>]
        ELSE LET data == And8(buf[addr + 1], RotR8(Not8(240), (x % 2) * 4))
                 new == And8(buf[addr + 1],
                             Or8(data, Shr8(Shl8(color, 4), (x % 2) * 4)))
             IN  [st |-> "Ok", buf |-> [buf EXCEPT ![addr + 1] = new]]

RECURSIVE PackRange(_, _, _, _, _)
\* the for loop of get_buffer over the pixels lo..hi, in order (the range is
\* halved only to keep the evaluation shallow: first lo..mid, then the rest)
PackRange(img, width, buf, lo, hi) ==
    IF lo > hi THEN [st |-> "Ok", buf |-> buf]
    ELSE IF lo = hi THEN PackPixel(img, width, buf, lo)
    ELSE LET mid == (lo + hi) \div 2
             first == PackRange(img, width, buf, lo, mid)
         IN  IF first.st # "Ok" THEN first
             ELSE PackRange(img, width, first.buf, mid + 1, hi)

\* get_buffer as it would be without its `pixels.len() != height * width`
\* check
get_bufferUnchecked(img, width, height) ==
    PackRange(img, width, [k \in 1..((width \div 2) * height) |-> 255],
              1, Len(img.px))

\* pub fn get_buffer
get_buffer(img, width, height) ==
    LET buf == [k \in 1..((width \div 2) * height) |-> 255]
    IN  IF img.w * img.h # height * width
        THEN [st |-> "OutOfBounds", buf |-> <<>>]
        ELSE PackRange(img, width, buf, 1, Len(img.px))

(***************************************************************************)
(* Text.  A font at a scale is the pair the driver measures: the width of  *)
(* the "_" glyph's bounding box and ceil(ascent - descent).  The           *)
(* rasteriser is a library; Ink stands for the gray it leaves at a pixel   *)
(* of a glyph's cell.                                                      *)
(***************************************************************************)
\* i32::MAX, the largest value of a dimension
I32_MAX == 2147483647

\* `v += 1` on an i32 in a build without overflow checks: i32::MAX wraps to
\* i32::MIN
Inc32(v) == IF v = I32_MAX THEN (-I32_MAX) - 1 ELSE v + 1

\* size_to_pow_2 as it would be looking at the first dimension only
size_to_pow_2FirstOnly(size) ==
    <<IF size[1] % 2 # 0 THEN Inc32(size[1]) ELSE size[1], size[2]>>

\* pub fn size_to_pow_2, as a build without overflow checks computes it
size_to_pow_2(size) ==
    LET s0 == IF size[1] % 2 # 0 THEN Inc32(size[1]) ELSE size[1]
        s1 == IF size[2] % 2 # 0 THEN Inc32(size[2]) ELSE size[2]
    IN  <<s0, s1>>

\* one of size_to_pow_2's `+= 1` overflows: a panic in a build with overflow
\* checks
size_to_pow_2Overflows(size) == size[1] = I32_MAX \/ size[2] = I32_MAX

\* pub fn get_text_size_full
get_text_size_full(text, font) ==
    LET wh == size_to_pow_2(<<font[1], font[2]>>)
    IN  <<wh[1] * Len(text), wh[2], wh[1]>>

Ink(ch, i, j) ==
    IF ch = " " THEN 0
    ELSE IF (i + j) % 2 = 0 THEN 15
    ELSE IF ch = "a" THEN 7 ELSE 0

\* pub fn create_text: each character drawn in its cell, the canvas rotated
\* by 180 degrees
create_text(text, font) ==
    LET m == get_text_size_full(text, font)
        width == m[1]
        height == m[2]
        char_width == m[3]
        canvas(x, y) == Ink(text[(x \div char_width) + 1], x % char_width, y)
    IN  [img |-> [w |-> width, h |-> height,
                  px |-> [k \in 1..(width * height) |->
                            canvas(width - 1 - ((k - 1) % width),
                                   height - 1 - ((k - 1) \div width))]],
         width |-> width, height |-> height]

\* fonts, as <<width of "_", ceil(ascent - descent)>>
Fonts == {<<10, 10>>, <<9, 9>>, <<3, 2>>, <<63, 1>>}

Chars == {"a", "b", " "}
Texts == SeqsUpTo(Chars, MaxTextLen)

\* what create_text and then get_buffer make of each text the model draws
\* (and of "_", which stands in for whitespace), computed once
Rendered ==
    [text \in Texts \cup {<<"_">>}, font \in Fonts |->
        LET t == create_text(text, font)
            b == get_buffer(t.img, t.width, t.height)
        IN  [width |-> t.width, height |-> t.height, st |-> b.st, buf |-> b.buf]]

\* a font whose cell is more than half the panel each way: one character
\* to a row, and no room for a second row
TallFonts == {<<65, 65>>}

\* what create_text and then get_buffer make of a single character in each
\* font a paragraph is drawn in, computed once
RenderedChar ==
    [text \in {<<c>> : c \in (Chars \ {" "}) \cup {"_"}}, font \in Fonts \cup TallFonts |->
        LET t == create_text(text, font)
            b == get_buffer(t.img, t.width, t.height)
        IN  [width |-> t.width, height |-> t.height, st |-> b.st, buf |-> b.buf]]

\* self.get_buffer(image.enumerate_pixels(), width, height)?
Packed(s, b) ==
    IF s.st = "run" /\ b.st # "Ok" THEN [s EXCEPT !.st = b.st] ELSE s

\* ShowAt as it would be mirroring the column only
ShowAtMirrorsXOnly(s, buffer, bx, by, width, height, flip) ==
    IF flip
    THEN LET s1 == Overflow(s, OLED_WIDTH - width - bx < 0)
         IN  IF s1.st # "run" THEN s1
             ELSE show_image(s1, buffer, OLED_WIDTH - width - bx, by, width, height)
    ELSE IF s.st # "run" THEN s
         ELSE show_image(s, buffer, bx, by, width, height)

\* the show_image call of the text operations: at (bx, by), or mirrored
\* when flip; the usize subtractions of the mirrored position can underflow
ShowAt(s, buffer, bx, by, width, height, flip) ==
    IF flip
    THEN LET s1 == Overflow(s, OLED_WIDTH - width - bx < 0)
             s2 == Overflow(s1, OLED_HEIGHT - height - by < 0)
         IN  IF s2.st # "run" THEN s2
             ELSE show_image(s2, buffer, OLED_WIDTH - width - bx,
                             OLED_HEIGHT - height - by, width, height)
    ELSE IF s.st # "run" THEN s
         ELSE show_image(s, buffer, bx, by, width, height)

\* pub fn draw_text; the cursor it returns is kept in the call's ret
draw_text(s, x, y, text, font, flip) ==
    LET t == Rendered[text, font]
        s1 == Packed(s, t)
        s2 == ShowAt(s1, t.buf, x, y, t.width, t.height, flip)
    IN  [s2 EXCEPT !.ret = <<x + t.width, y + t.height>>]

\* draw_centered_text as it would be subtracting the whole width and height
\* from the centre
draw_centered_textFullSize(s, x, y, text, font, flip) ==
    LET t == Rendered[text, font]
        s1 == Packed(s, t)
        bx == OLED_WIDTH \div 2 - t.width - x
        by == OLED_HEIGHT \div 2 - t.height - y
        s2 == Overflow(Overflow(s1, bx < 0), by < 0)
        s3 == ShowAt(s2, t.buf, bx, by, t.width, t.height, flip)
    IN  [s3 EXCEPT !.ret = <<x + t.width, y + t.height>>]

\* pub fn draw_centered_text
draw_centered_text(s, x, y, text, font, flip) ==
    LET t == Rendered[text, font]
        s1 == Packed(s, t)
        bx == OLED_WIDTH \div 2 - t.width \div 2 - x
        by == OLED_HEIGHT \div 2 - t.height \div 2 - y
        s2 == Overflow(Overflow(s1, bx < 0), by < 0)
        s3 == ShowAt(s2, t.buf, bx, by, t.width, t.height, flip)
    IN  [s3 EXCEPT !.ret = <<x + t.width, y + t.height>>]

\* Advance as it would be wrapping on `x > OLED_WIDTH`
AdvanceLate(x, y, width, height) ==
    LET x1 == x + width
    IN  IF x1 > OLED_WIDTH THEN <<0, y + height>> ELSE <<x1, y>>

\* the cursor arithmetic that ends a pass of draw_paragraph_at's loop:
\* x += width; if x + width > OLED_WIDTH { x = 0; y += height }
Advance(x, y, width, height) ==
    LET x1 == x + width
    IN  IF x1 + width > OLED_WIDTH THEN <<0, y + height>> ELSE <<x1, y>>

\* the end of a pass that got past its `?`s: the cursor (kept in ret) moves,
\* and steps gets the pass's record
CursorStep(s, char, width, height) ==
    IF s.st # "run" THEN s
    ELSE [s EXCEPT !.ret = Advance(s.ret[1], s.ret[2], width, height),
                   !.steps = Append(@,
                       [char |-> char, at |-> s.ret,
                        to |-> Advance(s.ret[1], s.ret[2], width, height),
                        size |-> <<width, height>>])]

\* one pass of the loop, for `char`, rendered as t
ParagraphChar(s, char, t, flip) ==
    CursorStep(IF char = " " THEN Packed(s, t)
               ELSE ShowAt(Packed(s, t), t.buf, s.ret[1], s.ret[2],
                           t.width, t.height, flip),
               char, t.width, t.height)

RECURSIVE ParagraphFrom(_, _, _, _)
\* the for loop of draw_paragraph_at over the characters still to come
ParagraphFrom(s, text, font, flip) ==
    IF s.st # "run" \/ text = <<>> THEN s
    ELSE ParagraphFrom(
             ParagraphChar(s, Head(text),
                           RenderedChar[IF Head(text) = " " THEN <<"_">>
                                        ELSE <<Head(text)>>, font],
                           flip),
             Tail(text), font, flip)

\* pub fn draw_paragraph_at
draw_paragraph_at(s, x, y, text, font, flip) ==
    ParagraphFrom([s EXCEPT !.ret = <<x, y>>], text, font, flip)

\* pub fn draw_paragraph
draw_paragraph(s, text, font, flip) == draw_paragraph_at(s, 0, 0, text, font, flip)

\* pub fn has_cleared
has_cleared == cleared

(***************************************************************************)
(* Inputs                                                                  *)
(***************************************************************************)
\* which bus write of a call fails; 0: none
Fails == 0..MaxFail

\* positions and extents around the panel's edge (128) and the u8 range (256)
Xs == {0, 2, 128, 130, 254, 256}
Ys == {0, 127, 130}
Widths == {0, 2, 4, 256}
Heights == {0, 1, 2}

\* two byte values that differ in both nibbles
Bytes == {18, 171}

Buffers == SeqsUpTo(Bytes, MaxBufLen)

\* gray values: below 16, and above it with other low bits
Grays == {0, 5, 26, 255}

\* the images of at most MaxPix pixels
Images ==
    UNION {{[w |-> iw, h |-> ih, px |-> q] :
              q \in {r \in SeqsUpTo(Grays, MaxPix) : Len(r) = iw * ih}} :
           iw \in 0..MaxPix, ih \in 0..MaxPix}

\* dimensions: around zero, of both signs and parities, and at the ends of
\* the i32 range
Dims == (-3..5) \cup {I32_MAX - 1, I32_MAX, (-I32_MAX) - 1, -I32_MAX}

\* cursor positions
TextXs == {0, 60, 110, 120}
TextYs == {0, 120}

(***************************************************************************)
(* The state machine                                                       *)
(***************************************************************************)
\* the call `name(a)` ended as s; `alive` is what the caller holds afterwards
\* when nothing panicked
Done(name, a, s, alive) ==
    /\ op' = name
    /\ args' = a
    /\ res' = (IF s.st = "run" THEN "Ok" ELSE s.st)
    /\ ret' = (IF s.st = "run" THEN s.ret ELSE <<>>)
    /\ log' = s.log
    /\ pins' = s.pins
    /\ wins' = s.wins
    /\ shows' = s.shows
    /\ steps' = s.steps
    /\ pre' = cleared
    /\ cleared' = (IF alive = "ready" THEN s.cleared ELSE cleared)
    /\ dev' = (IF s.st = "Panic" THEN "aborted" ELSE alive)
    /\ pc' = (IF s.st # "Panic" /\ alive = "ready" /\ name # "has_cleared"
              THEN "observe" ELSE "call")
    /\ UNCHANGED checks

Init ==
    /\ dev = "none"
    /\ checks \in BOOLEAN
    /\ cleared = FALSE
    /\ pc = "call"
    /\ op = "none"
    /\ args = <<>>
    /\ res = "none"
    /\ ret = <<>>
    /\ log = <<>>
    /\ pins = <<>>
    /\ wins = <<>>
    /\ shows = <<>>
    /\ steps = <<>>
    /\ pre = FALSE

\* WS1in5::new: the GPIO or the bus may refuse to open; otherwise init runs
New ==
    /\ dev = "none"
    /\ pc = "call"
    /\ \E open \in {"ok", "gpio", "i2c"}, f \in 0..Len(InitCmds) :
         \E s \in {CASE open = "gpio" -> [Ctx(TRUE, f, checks) EXCEPT !.st = "GPIO"]
                     [] open = "i2c" ->
                          [SetPin(Ctx(TRUE, f, checks), 0) EXCEPT !.st = "I2C"]
                     [] OTHER -> init(SetPin(Ctx(TRUE, f, checks), 0))} :
            Done("new", [open |-> open, fail |-> f], s,
                 IF s.st = "run" THEN "ready" ELSE "none")

Reset ==
    /\ dev = "ready"
    /\ pc = "call"
    /\ \E s \in {reset(Ctx(cleared, 0, checks))} :
         Done("reset", <<>>, s, "ready")

Clear ==
    /\ dev = "ready"
    /\ pc = "call"
    /\ \E x \in Xs, y \in Ys, width \in Widths, height \in Heights, f \in Fails :
         \E s \in {clear(Ctx(cleared, f, checks), x, y, width, height)} :
            Done("clear",
                 [x |-> x, y |-> y, width |-> width, height |-> height, fail |-> f],
                 s, "ready")

ClearAll ==
    /\ dev = "ready"
    /\ pc = "call"
    /\ \E f \in Fails :
         \E s \in {clear_all(Ctx(cleared, f, checks))} :
            Done("clear_all", [fail |-> f], s, "ready")

ShowImage ==
    /\ dev = "ready"
    /\ pc = "call"
    /\ \E buffer \in Buffers, x \in Xs, y \in Ys, width \in Widths,
          height \in Heights, f \in Fails :
         \E s \in {show_image(Ctx(cleared, f, checks), buffer, x, y, width, height)} :
            Done("show_image",
                 [buffer |-> buffer, x |-> x, y |-> y, width |-> width,
                  height |-> height, fail |-> f],
                 s, "ready")

\* the caller reads the flag
HasCleared ==
    /\ dev = "ready"
    /\ pc = "observe"
    /\ \E s \in {[Ctx(cleared, 0, checks) EXCEPT !.ret = has_cleared]} :
         Done("has_cleared", <<>>, s, "ready")

Next ==
    \/ New
    \/ Reset
    \/ Clear
    \/ ClearAll
    \/ ShowImage
    \/ HasCleared

Spec == Init /\ [][Next]_vars

\* get_buffer takes &self and leaves the driver as it was
GetBuffer ==
    /\ dev = "ready"
    /\ pc = "call"
    /\ \E img \in Images, width \in 0..MaxPix, height \in 0..MaxPix :
         \E b \in {get_buffer(img, width, height)} :
            Done("get_buffer", [img |-> img, width |-> width, height |-> height],
                 [Packed(Ctx(cleared, 0, checks), b) EXCEPT !.ret = b.buf], "ready")

NextPack ==
    \/ New
    \/ GetBuffer
    \/ HasCleared

\* the packer alone
SpecPack == Init /\ [][NextPack]_vars

DrawText ==
    /\ dev = "ready"
    /\ pc = "call"
    /\ \E x \in TextXs, y \in TextYs, text \in Texts, font \in Fonts,
          flip \in BOOLEAN, f \in Fails :
         \E s \in {draw_text(Ctx(cleared, f, checks), x, y, text, font, flip)} :
            Done("draw_text",
                 [x |-> x, y |-> y, text |-> text, font |-> font, flip |-> flip,
                  fail |-> f],
                 s, "ready")

DrawCenteredText ==
    /\ dev = "ready"
    /\ pc = "call"
    /\ \E x \in TextXs, y \in TextYs, text \in Texts, font \in Fonts,
          flip \in BOOLEAN, f \in Fails :
         \E s \in {draw_centered_text(Ctx(cleared, f, checks), x, y, text, font, flip)} :
            Done("draw_centered_text",
                 [x |-> x, y |-> y, text |-> text, font |-> font, flip |-> flip,
                  fail |-> f],
                 s, "ready")

DrawParagraph ==
    /\ dev = "ready"
    /\ pc = "call"
    /\ \E text \in Texts, font \in Fonts \cup TallFonts, flip \in BOOLEAN,
          f \in Fails :
         \E s \in {draw_paragraph(Ctx(cleared, f, checks), text, font, flip)} :
            Done("draw_paragraph",
                 [x |-> 0, y |-> 0, text |-> text, font |-> font, flip |-> flip,
                  fail |-> f],
                 s, "ready")

DrawParagraphAt ==
    /\ dev = "ready"
    /\ pc = "call"
    /\ \E x \in TextXs, y \in TextYs, text \in Texts, font \in Fonts,
          flip \in BOOLEAN, f \in Fails :
         \E s \in {draw_paragraph_at(Ctx(cleared, f, checks), x, y, text, font, flip)} :
            Done("draw_paragraph_at",
                 [x |-> x, y |-> y, text |-> text, font |-> font, flip |-> flip,
                  fail |-> f],
                 s, "ready")

NextText ==
    \/ New
    \/ ClearAll
    \/ ShowImage
    \/ DrawText
    \/ DrawCenteredText
    \/ DrawParagraph
    \/ DrawParagraphAt
    \/ HasCleared

\* the text operations, with show_image and clear_all beside them
SpecText == Init /\ [][NextText]_vars

\* size_to_pow_2 is an associated function: it needs no driver
SizeToPow2 ==
    /\ dev # "aborted"
    /\ pc = "call"
    /\ \E size \in Dims \X Dims :
         \E s \in {[Overflow(Ctx(cleared, 0, checks), size_to_pow_2Overflows(size))
                      EXCEPT !.ret = size_to_pow_2(size)]} :
            Done("size_to_pow_2", [size |-> size], s, dev)

NextSize ==
    \/ New
    \/ SizeToPow2
    \/ HasCleared

\* the size rounding alone
SpecSize == Init /\ [][NextSize]_vars

(***************************************************************************)
(* Properties                                                              *)
(***************************************************************************)
\* the bytes of the log's writes to register reg, in order
BytesTo(reg) ==
    LET w == SelectSeq(log, LAMBDA e : e[1] = reg)
    IN  [k \in 1..Len(w) |-> w[k][2]]

\* the packed size show_image and clear compute from their arguments
Need == (args.width \div 2) * args.height

\* the last write of the call failed, and it was a write to register reg
FailedOn(reg) ==
    /\ log # <<>>
    /\ log[Len(log)][1] = reg
    /\ ~log[Len(log)][3]

\* C1: has_cleared() is true right after a successful WS1in5::new and right
\* after any clear, clear_all or reset that returns, whether the write
\* succeeded or failed.
C1_ClearedAfterClearing ==
    (/\ op \in {"new", "clear", "clear_all", "reset"}
     /\ dev = "ready") => has_cleared

\* C2: for an even width and an image of exactly width x height pixels,
\* get_buffer returns Ok with (width/2)*height bytes, and pixel (x,y) is the
\* high nibble of byte x/2 + y*(width/2) when x is even, its low nibble when
\* x is odd.
C2_PackedNibbles ==
    (/\ op = "get_buffer"
     /\ args.width % 2 = 0
     /\ args.img.w = args.width
     /\ args.img.h = args.height)
    => /\ res = "Ok"
       /\ Len(ret) = (args.width \div 2) * args.height
       /\ \A x \in 0..(args.width - 1), y \in 0..(args.height - 1) :
             LET gray == args.img.px[x + y * args.width + 1]
                 byte == ret[x \div 2 + y * (args.width \div 2) + 1]
             IN  IF x % 2 = 0 THEN byte \div 16 = gray % 16
                 ELSE byte % 16 = gray % 16

C2_Witness ==
    /\ op = "get_buffer"
    /\ args.width = 2
    /\ args.height = 2
    /\ args.img = [w |-> 2, h |-> 2, px |-> <<5, 26, 255, 0>>]
    /\ res = "Ok"
    /\ ret = <<90, 240>>

\* C3 as claimed: show_image with a buffer shorter than (width/2)*height
\* returns Err(OutOfBounds) and leaves the cleared flag as it was.
C3_ShortBufferIsOutOfBounds ==
    (op = "show_image" /\ Len(args.buffer) < Need)
    => (res = "OutOfBounds" /\ cleared = pre)

\* C3 as amended: show_image with a buffer shorter than (width/2)*height
\* never returns Ok and sends no data byte; it returns Err(OutOfBounds)
\* unless window addressing ends the call first, with the transport error of
\* one of its command writes or, in a build with overflow checks, a panic in
\* its u8 arithmetic; in every case the cleared flag is left as it was.
C3_ShortBufferNeverOk ==
    (op = "show_image" /\ Len(args.buffer) < Need)
    => /\ \/ res = "OutOfBounds"
          \/ res = "I2C" /\ FailedOn(CMD_REG)
          \/ res = "Panic" /\ checks
       /\ res = "OutOfBounds" => \A k \in 1..Len(log) : log[k][3]
       /\ BytesTo(DATA_REG) = <<>>
       /\ cleared = pre

C3_Witness ==
    /\ op = "show_image"
    /\ Len(args.buffer) < Need
    /\ res = "OutOfBounds"
    /\ pre
    /\ has_cleared

\* the characters of the text argument that are not whitespace
Inked == {i \in 1..Len(args.text) : args.text[i] # " "}

\* C4 as claimed: has_cleared() is false right after any show_image,
\* draw_text, draw_centered_text, draw_paragraph or draw_paragraph_at that
\* returns Ok, for every text, empty and whitespace-only ones included.
C4_OkDrawClearsFlag ==
    (/\ op \in {"show_image", "draw_text", "draw_centered_text",
                "draw_paragraph", "draw_paragraph_at"}
     /\ res = "Ok") => ~has_cleared

\* C4 as amended: has_cleared() is false right after any show_image,
\* draw_text or draw_centered_text that returns Ok (for every text), and
\* right after any draw_paragraph or draw_paragraph_at that returns Ok for
\* a text with at least one non-whitespace character; a paragraph call on
\* an empty or whitespace-only text returns Ok and leaves the flag as it was.
C4_OkWriteClearsFlag ==
    /\ (op \in {"show_image", "draw_text", "draw_centered_text"} /\ res = "Ok")
       => ~has_cleared
    /\ (op \in {"draw_paragraph", "draw_paragraph_at"} /\ res = "Ok")
       => IF Inked # {} THEN ~has_cleared ELSE has_cleared = pre

C4_Witness ==
    /\ op = "draw_paragraph_at"
    /\ args.text = <<" ", "a">>
    /\ res = "Ok"
    /\ pre
    /\ ~has_cleared

\* a set_windows invocation whose bounds are all on the panel
OnPanel(w) == \A i \in 1..4 : w.a[i] <= 128

\* C5: set_windows with any of its four bounds above 128 returns Ok and
\* issues no command byte.
C5_WindowOffPanelIsNoOp ==
    \A i \in 1..Len(wins) :
        ~OnPanel(wins[i]) => (wins[i].st = "Ok" /\ wins[i].to = wins[i].from)

C5_Witness ==
    /\ op = "show_image"
    /\ res = "Ok"
    /\ Len(wins) = 1
    /\ wins[1].a[1] <= 128
    /\ wins[1].a[3] > 128
    /\ BytesTo(CMD_REG) = <<>>
    /\ BytesTo(DATA_REG) # <<>>

\* C6: for bounds all <= 128, xend < 2 and yend = 0 included, set_windows
\* issues exactly the six command bytes 0x15, xstart/2, xend/2 - 1, 0x75,
\* ystart, yend - 1, the two differences being the non-negative values of
\* those expressions (no underflow, no wrap-around).  Invocations the bus
\* cut short are left aside.
C6_WindowCommands ==
    \A i \in 1..Len(wins) :
        (OnPanel(wins[i]) /\ wins[i].st # "I2C")
        => /\ wins[i].st = "Ok"
           /\ [k \in 1..(wins[i].to - wins[i].from) |-> log[wins[i].from + k]]
              = << <<CMD_REG, 21, TRUE>>,
                   <<CMD_REG, wins[i].a[1] \div 2, TRUE>>,
                   <<CMD_REG, wins[i].a[3] \div 2 - 1, TRUE>>,
                   <<CMD_REG, 117, TRUE>>,
                   <<CMD_REG, wins[i].a[2], TRUE>>,
                   <<CMD_REG, wins[i].a[4] - 1, TRUE>> >>
           /\ wins[i].a[3] \div 2 - 1 >= 0
           /\ wins[i].a[4] - 1 >= 0

\* C7 as claimed: when show_image returns Ok, the bytes it sent on the data
\* channel are exactly the bytes of buffer, each once, in index order, also
\* for a buffer longer than (width/2)*height.
C7_StreamsWholeBuffer ==
    (op = "show_image" /\ res = "Ok") => BytesTo(DATA_REG) = args.buffer

\* C7 as amended: when show_image returns Ok, the bytes it sent on the data
\* channel are exactly the first (width/2)*height bytes of buffer, each
\* once, in index order; the bytes of a longer buffer past that are not sent.
C7_StreamsPackedPrefix ==
    (op = "show_image" /\ res = "Ok")
    => BytesTo(DATA_REG) = [k \in 1..Need |-> args.buffer[k]]

C7_Witness ==
    /\ op = "show_image"
    /\ res = "Ok"
    /\ args.width = 4
    /\ args.height = 2
    /\ args.buffer = <<18, 171, 171, 18>>
    /\ BytesTo(DATA_REG) = <<18, 171, 171, 18>>

\* C8 as claimed: whenever show_image returns an error (OutOfBounds, a
\* transport error in window addressing, a transport error on a data byte),
\* has_cleared() afterwards is what it was before.
C8_ErrorKeepsFlag ==
    (op = "show_image" /\ res \in {"OutOfBounds", "I2C"}) => has_cleared = pre

\* C8 as amended: when show_image returns OutOfBounds or the transport error
\* of a window-address command, has_cleared() afterwards is what it was
\* before; when it returns the transport error of a data byte, the flag was
\* set to false before the first data byte and has_cleared() is false.
C8_ErrorBeforeDataKeepsFlag ==
    /\ (op = "show_image" /\ res = "OutOfBounds") => has_cleared = pre
    /\ (op = "show_image" /\ res = "I2C" /\ FailedOn(CMD_REG)) => has_cleared = pre
    /\ (op = "show_image" /\ res = "I2C" /\ FailedOn(DATA_REG)) => ~has_cleared

C8_Witness ==
    /\ op = "show_image"
    /\ res = "I2C"
    /\ FailedOn(DATA_REG)
    /\ Len(BytesTo(DATA_REG)) = 2
    /\ pre
    /\ ~has_cleared

\* C9: if a command write of init fails, nothing is sent after it (display
\* on, 0xAF, in particular), it is not retried, and WS1in5::new returns a
\* transport error and no driver.
C9_InitFailFast ==
    (op = "new" /\ \E k \in 1..Len(log) : ~log[k][3])
    => /\ res = "I2C"
       /\ dev = "none"
       /\ \A k \in 1..Len(log) : ~log[k][3] <=> k = Len(log)
       /\ \A k \in 1..Len(log) : log[k][1] = CMD_REG /\ log[k][2] = InitCmds[k]
       /\ Len(log) <= Len(InitCmds)
       /\ \A k \in 1..Len(log) : log[k][2] = 175 => k = Len(InitCmds)

C9_Witness ==
    /\ op = "new"
    /\ res = "I2C"
    /\ Len(log) = 8
    /\ log[8] = <<CMD_REG, 129, FALSE>>

\* the cell every character of the call's font measures: each dimension of
\* the font, made even
CellW == args.font[1] + (args.font[1] % 2)
CellH == args.font[2] + (args.font[2] % 2)

\* C10: draw_paragraph_at takes the characters in order and, for every
\* character, whitespace or not, moves the cursor to x + w and then, if
\* x + w > 128, to (0, y + h); it returns the cursor after the last
\* character.  For "ab" with w = h = 10 from (0,0): (10,0) after 'a', and
\* (20,0) returned.
C10_ParagraphCursor ==
    (op \in {"draw_paragraph", "draw_paragraph_at"} /\ res = "Ok")
    => /\ Len(steps) = Len(args.text)
       /\ \A i \in 1..Len(steps) :
             LET at == IF i = 1 THEN <<args.x, args.y>> ELSE steps[i - 1].to
             IN  /\ steps[i].char = args.text[i]
                 /\ steps[i].at = at
                 /\ steps[i].to = IF at[1] + CellW + CellW > 128
                                  THEN <<0, at[2] + CellH>>
                                  ELSE <<at[1] + CellW, at[2]>>
       /\ ret = IF steps = <<>> THEN <<args.x, args.y>> ELSE steps[Len(steps)].to
       /\ (/\ args.text = <<"a", "b">>
           /\ CellW = 10
           /\ CellH = 10
           /\ args.x = 0
           /\ args.y = 0) => (steps[1].to = <<10, 0>> /\ ret = <<20, 0>>)

C10_Witness ==
    /\ op = "draw_paragraph_at"
    /\ res = "Ok"
    /\ args.text = <<"a", "b">>
    /\ args.font = <<10, 10>>
    /\ args.x = 0
    /\ args.y = 0
    /\ steps[1].to = <<10, 0>>
    /\ ret = <<20, 0>>

\* C11: get_buffer returns Err(OutOfBounds), and no buffer, whenever the
\* number of pixels supplied differs from width*height.
C11_PixelCountMismatch ==
    (op = "get_buffer" /\ Len(args.img.px) # args.width * args.height)
    => (res = "OutOfBounds" /\ ret = <<>>)

C11_Witness ==
    /\ op = "get_buffer"
    /\ args.img = [w |-> 2, h |-> 1, px |-> <<5, 26>>]
    /\ args.width = 2
    /\ args.height = 2
    /\ res = "OutOfBounds"

\* the size draw_text and draw_centered_text measure for the call's text:
\* one cell per character, side by side
TextW == CellW * Len(args.text)
TextH == CellH

\* C12: draw_text hands the block to show_image once, at (x, y) when flip is
\* false and at (128 - w - x, 128 - h - y) when flip is true, with extent
\* (w, h) and the w/2 * h packed bytes, and the window is addressed from
\* that position; on success it returns (x + w, y + h) whatever flip is.  At
\* (0,0): (0,0) unflipped, (128 - w, 128 - h) flipped.  (A negative
\* coordinate stands for the usize it wraps to.)
C12_DrawTextPlacement ==
    op = "draw_text"
    => LET px == IF args.flip THEN 128 - TextW - args.x ELSE args.x
           py == IF args.flip THEN 128 - TextH - args.y ELSE args.y
       IN  /\ Len(shows) <= 1
           /\ \A i \in 1..Len(shows) :
                 shows[i] = [x |-> px, y |-> py, width |-> TextW, height |-> TextH,
                             len |-> (TextW \div 2) * TextH]
           /\ \A i \in 1..Len(wins) :
                 wins[i].a[1] = px % 256 /\ wins[i].a[2] = py % 256
           /\ res = "Ok" => (Len(shows) = 1 /\ ret = <<args.x + TextW, args.y + TextH>>)
           /\ (res = "Ok" /\ args.x = 0 /\ args.y = 0)
              => (shows[1].x = IF args.flip THEN 128 - TextW ELSE 0)
                 /\ (shows[1].y = IF args.flip THEN 128 - TextH ELSE 0)

C12_Witness ==
    /\ op = "draw_text"
    /\ args.text = <<"a", "b">>
    /\ args.font = <<10, 10>>
    /\ args.x = 0
    /\ args.y = 0
    /\ args.flip
    /\ res = "Ok"
    /\ shows = <<[x |-> 108, y |-> 118, width |-> 20, height |-> 10, len |-> 100]>>
    /\ ret = <<20, 10>>

\* the positions of the log whose byte is b
Sent(b) == {k \in 1..Len(log) : log[k][2] = b}

\* C13: in a construction that gets to init, the reset line has gone high,
\* low, high before any command byte is attempted; the first command byte
\* is display-off (0xAE); display-on (0xAF) is sent only as the last command
\* of the list, after every command before it was sent successfully, and
\* exactly once when construction succeeds.
C13_InitOrder ==
    (op = "new" /\ args.open = "ok")
    => /\ Len(pins) = 4
       /\ [i \in 1..3 |-> pins[i + 1][1]] = <<1, 0, 1>>
       /\ \A i \in 1..4 : pins[i][2] = 0
       /\ log # <<>>
       /\ log[1][1] = CMD_REG /\ log[1][2] = 174
       /\ \A k \in Sent(175) :
             /\ k = Len(InitCmds)
             /\ \A j \in 1..(k - 1) : log[j] = <<CMD_REG, InitCmds[j], TRUE>>
       /\ res = "Ok" => (Cardinality(Sent(175)) = 1 /\ log[Len(log)] = <<CMD_REG, 175, TRUE>>)

C13_Witness ==
    /\ op = "new"
    /\ res = "Ok"
    /\ dev = "ready"
    /\ pins = << <<0, 0>>, <<1, 0>>, <<0, 0>>, <<1, 0>> >>
    /\ log[1] = <<CMD_REG, 174, TRUE>>
    /\ Sent(175) = {Len(InitCmds)}

\* the rectangle show_image and clear are asked for
Rect == <<args.x, args.y, args.x + args.width, args.y + args.height>>

\* C14: show_image with a buffer of at least (width/2)*height bytes and a
\* rectangle with a bound above 128 (the bounds being values the u8 window
\* arguments hold) has its window ignored: no command byte is sent, the
\* (width/2)*height data bytes are streamed all the same, the flag is set
\* to false, and the call returns Ok; only a data write the bus refuses
\* ends it earlier, with the transport error.
C14_OffPanelStillStreams ==
    (/\ op = "show_image"
     /\ Len(args.buffer) >= Need
     /\ \A i \in 1..4 : Rect[i] <= 255
     /\ \E i \in 1..4 : Rect[i] > 128)
    => /\ wins = <<[a |-> Rect, from |-> 0, to |-> 0, st |-> "Ok"]>>
       /\ BytesTo(CMD_REG) = <<>>
       /\ ~has_cleared
       /\ \/ /\ res = "Ok"
             /\ BytesTo(DATA_REG) = [k \in 1..Need |-> args.buffer[k]]
          \/ /\ res = "I2C"
             /\ args.fail \in 1..Need
             /\ BytesTo(DATA_REG) = [k \in 1..args.fail |-> args.buffer[k]]

C14_Witness ==
    /\ op = "show_image"
    /\ args.x = 130
    /\ args.width = 4
    /\ args.height = 2
    /\ args.buffer = <<18, 171, 171, 18>>
    /\ res = "Ok"
    /\ pre
    /\ ~has_cleared
    /\ log = << <<DATA_REG, 18, TRUE>>, <<DATA_REG, 171, TRUE>>,
                <<DATA_REG, 171, TRUE>>, <<DATA_REG, 18, TRUE>> >>

\* C15: for all x, y, width, height given to show_image or clear, values and
\* sums above 255 included, a rectangle (x, y, x+width, y+height) with a
\* bound above 128 has its window ignored: no column-address (0x15) or
\* row-address (0x75) command, and so no command byte at all, is sent.
C15_OffPanelNoWindowCommand ==
    (/\ op \in {"show_image", "clear"}
     /\ \E i \in 1..4 : Rect[i] > 128)
    => BytesTo(CMD_REG) = <<>>

\* C16: draw_centered_text hands the block to show_image at the base
\* position (64 - w/2 - x, 64 - h/2 - y) when flip is false and at its
\* mirror (128 - w - base x, 128 - h - base y) when flip is true, with extent
\* (w, h); with offset (0,0) the two positions are the same one.  (A negative
\* coordinate stands for the usize it wraps to.)
C16_CenteredPlacement ==
    op = "draw_centered_text"
    => LET bx == 64 - TextW \div 2 - args.x
           by == 64 - TextH \div 2 - args.y
           px == IF args.flip THEN 128 - TextW - bx ELSE bx
           py == IF args.flip THEN 128 - TextH - by ELSE by
       IN  /\ Len(shows) <= 1
           /\ \A i \in 1..Len(shows) :
                 shows[i] = [x |-> px, y |-> py, width |-> TextW, height |-> TextH,
                             len |-> (TextW \div 2) * TextH]
           /\ \A i \in 1..Len(wins) :
                 wins[i].a[1] = px % 256 /\ wins[i].a[2] = py % 256
           /\ res = "Ok" => Len(shows) = 1
           /\ (res = "Ok" /\ args.x = 0 /\ args.y = 0)
              => (shows[1].x = 64 - TextW \div 2 /\ shows[1].y = 64 - TextH \div 2)

C16_Witness ==
    /\ op = "draw_centered_text"
    /\ args.text = <<"a", "b">>
    /\ args.font = <<9, 9>>
    /\ args.x = 0
    /\ args.y = 0
    /\ args.flip
    /\ res = "Ok"
    /\ shows = <<[x |-> 54, y |-> 59, width |-> 20, height |-> 10, len |-> 100]>>

\* C17 as claimed: size_to_pow_2 returns each dimension unchanged when it is
\* even and increased by exactly 1 when it is odd, for every pair of i32
\* dimensions.
C17_EveryOddPlusOne ==
    op = "size_to_pow_2"
    => /\ res = "Ok"
       /\ \A i \in 1..2 :
             IF args.size[i] % 2 = 0 THEN ret[i] = args.size[i]
             ELSE ret[i] > args.size[i] /\ ret[i] - args.size[i] = 1

\* C17 as amended: for dimensions other than i32::MAX, size_to_pow_2 returns
\* each dimension unchanged when it is even and increased by exactly 1 when
\* it is odd, independently per dimension, so both components are even and
\* a second application changes nothing; (3,4) -> (4,4), (4,5) -> (4,6),
\* (4,4) -> (4,4).  i32::MAX is odd and has no successor: with overflow
\* checks the call panics, without them that dimension becomes i32::MIN.
C17_OddPlusOneBelowMax ==
    op = "size_to_pow_2"
    => /\ res = "Panic" <=> (checks /\ \E i \in 1..2 : args.size[i] = I32_MAX)
       /\ res \in {"Ok", "Panic"}
       /\ res = "Ok"
          => /\ \A i \in 1..2 :
                   IF args.size[i] = I32_MAX THEN ret[i] = (-I32_MAX) - 1
                   ELSE IF args.size[i] % 2 = 0 THEN ret[i] = args.size[i]
                   ELSE ret[i] = args.size[i] + 1
             /\ \A i \in 1..2 : ret[i] % 2 = 0
             /\ size_to_pow_2(ret) = ret
             /\ args.size = <<3, 4>> => ret = <<4, 4>>
             /\ args.size = <<4, 5>> => ret = <<4, 6>>
             /\ args.size = <<4, 4>> => ret = <<4, 4>>

C17_Witness ==
    /\ op = "size_to_pow_2"
    /\ args.size = <<3, -3>>
    /\ res = "Ok"
    /\ ret = <<4, -2>>

\* C18: in a draw_paragraph call with a cell of at most 128 x 128, every
\* show_image invocation is for a rectangle wholly on the panel: the cursor
\* has x + w <= 128 and y + h <= 128, so the flipped coordinates are not
\* negative (nothing underflows), and window addressing is never a no-op.
C18_ParagraphStaysOnPanel ==
    (op = "draw_paragraph" /\ CellW <= 128 /\ CellH <= 128)
    => /\ res # "Panic"
       /\ \A i \in 1..Len(shows) :
             /\ shows[i].x >= 0 /\ shows[i].x + CellW <= 128
             /\ shows[i].y >= 0 /\ shows[i].y + CellH <= 128
       /\ \A i \in 1..Len(wins) : OnPanel(wins[i])

\* C19: for every even width, every height and every pixel source with
\* width*height pixels, whatever the source image's own dimensions, every
\* index get_buffer computes is inside the buffer: it ends with Ok or
\* Err(OutOfBounds), never with the panic of an index out of range.
C19_PackingIndexInRange ==
    (/\ op = "get_buffer"
     /\ args.width % 2 = 0
     /\ Len(args.img.px) = args.width * args.height)
    => res \in {"Ok", "OutOfBounds"}

\* C20 as claimed: a show_image call that fails with OutOfBounds has sent
\* nothing: neither window-address commands nor data bytes.
C20_OutOfBoundsSendsNothing ==
    (op = "show_image" /\ res = "OutOfBounds") => log = <<>>

\* C20 as amended: a show_image call that fails with OutOfBounds has sent
\* no data byte, but window addressing ran before the length check: when
\* the bounds it was given are all <= 128 the six window-address commands
\* were sent, successfully, and the controller's window is the requested
\* one; only when a bound is above 128 was nothing sent.
C20_OutOfBoundsAfterAddressing ==
    (op = "show_image" /\ res = "OutOfBounds")
    => /\ BytesTo(DATA_REG) = <<>>
       /\ Len(wins) = 1
       /\ wins[1].st = "Ok"
       /\ IF OnPanel(wins[1])
          THEN log = << <<CMD_REG, 21, TRUE>>,
                        <<CMD_REG, wins[1].a[1] \div 2, TRUE>>,
                        <<CMD_REG, AsU8(wins[1].a[3] \div 2 - 1), TRUE>>,
                        <<CMD_REG, 117, TRUE>>,
                        <<CMD_REG, wins[1].a[2], TRUE>>,
                        <<CMD_REG, AsU8(wins[1].a[4] - 1), TRUE>> >>
          ELSE log = <<>>

C20_Witness ==
    /\ op = "show_image"
    /\ res = "OutOfBounds"
    /\ args.buffer = <<18>>
    /\ args.x = 2
    /\ args.y = 0
    /\ args.width = 4
    /\ args.height = 2
    /\ BytesTo(CMD_REG) = <<21, 1, 2, 117, 0, 1>>

====
